---- MODULE Spec2Model ----
(***************************************************************************)
(* Model of the LTCUSD scalper strategies (backtrader bt.Strategy).        *)
(*   variant "v2" : src/LTCUSD_HighROI_Scalper_v2.py                       *)
(*   variant "m1" : src/strategies/LTCUSD_ScalperBot_1m.py                 *)
(*                                                                         *)
(* Units.  Prices and ATR are integers in ticks of 0.1 USD.  Order and     *)
(* position sizes are integers in units of 0.0001 lot.  P&L is therefore   *)
(* in units of 0.00001 USD.  Multipliers that the code writes with one     *)
(* decimal (1.5, 0.8, ...) are kept in tenths (15, 8, ...).  Account value *)
(* is in whole USD.                                                        *)
(***************************************************************************)
EXTENDS Integers, Sequences, FiniteSets, TLC

VARIABLES
    variant,    \* which strategy class is running
    bot,        \* the strategy object's fields (self.*)
    position,   \* broker-side position of the strategy: [size, price]
    book,       \* orders submitted to the broker and not yet filled/rejected
    feed,       \* the family of bar sequences the data feed draws from
    data,       \* the data feed's current bar: [len, close, atr, date, hour, minute]
    value,      \* what broker.getvalue() returns (USD); realized P&L of a run is
                \* below the sizer's resolution, so it is fixed at start
    ev,         \* the last event processed and what it did (history)
    hist,       \* what the account really did on the current date (history)
    analyzer,   \* the backtest runner's CustomAnalyzer: [trades, current_trade]
    sz,         \* position-sizer harness: inputs and result of one call
    call,       \* harness of the other pure functions: [fn, arg, done, result]
    web,        \* the webhook service (src/server.py): session_pnl and history
    live        \* the LiveTradingBot object (tradelocker_config.py) and history

vars == <<variant, bot, position, book, feed, data, value, ev, hist, analyzer, sz,
          call, web, live>>

----------------------------------------------------------------------------
(* Bounds of the model *)

MaxBars == 4          \* bars delivered by the data feed in one run
MaxDate == 2          \* calendar dates covered by the feed

\* The feed is explored one family of bar sequences at a time; a family fixes
\* the inputs it does not vary.  Prices and ATR in ticks, (hour, minute).
Feeds == {"price", "volatility", "calendar", "clock", "gap", "trail"}

Prices(f) ==
    IF f = "price" THEN {970, 1000, 1030}
    ELSE IF f = "volatility" THEN {970, 1060}
    ELSE IF f = "calendar" THEN {970, 1060}
    ELSE IF f = "gap" THEN {1000, 1010, 1030}
    ELSE IF f = "trail" THEN {1000, 1020}
    ELSE {1000, 1030}

Atrs(f) == IF f = "volatility" THEN {0, 20} ELSE {20}

BarTimes(f) == IF f = "clock" THEN {<<3, 30>>, <<10, 2>>, <<10, 30>>} ELSE {<<10, 30>>}

DateSteps(f) == IF f = "calendar" THEN {0, 1} ELSE {0}

\* Execution price of a market order.  The broker executes at the open that
\* follows; the families take it equal to the latest close, except "gap",
\* where the market may open at any of the family's prices.
FillPrices(f, close) == IF f = "gap" THEN Prices(f) ELSE {close}

BrokerValues == {3, 10000}            \* account value (USD)

----------------------------------------------------------------------------
(* Python values *)

None == -999999

\* truth value of a Python number-or-None
Truthy(x) == x # None /\ x # 0

Abs(x) == IF x < 0 THEN -x ELSE x
Min(a, b) == IF a < b THEN a ELSE b
Max(a, b) == IF a > b THEN a ELSE b

\* floor of n/d for d > 0, n any integer
FloorDiv(n, d) == n \div d

\* round(n/d) to the nearest integer, n >= 0, d > 0.  Python's round(x, k)
\* rounds the binary64 value x correctly: away from a tie the result is the
\* nearest multiple; an exact binary tie (0.125 -> 0.12) goes to the even
\* multiple; half of the last digit (0.005, 0.0005) lies above the tie in
\* binary64 and goes up to 0.01, 0.001.  Other decimal ties are kept out of
\* the input sets.
RoundDiv(n, d) ==
    LET q == FloorDiv(n, d)
        rem2 == 2 * (n - q * d)
    IN  IF rem2 < d THEN q
        ELSE IF rem2 > d THEN q + 1
        ELSE IF q = 0 THEN 1
        ELSE IF q % 2 = 0 THEN q ELSE q + 1

\* round(x, 2) and round(x, 3) of a size x = n/d given in 0.0001-lot units
RoundSize(n, d, step) == step * RoundDiv(n, d * step)

----------------------------------------------------------------------------
(* Strategy parameters (params tuples).  Values are the defaults of each    *)
(* class unless noted.                                                      *)

atr_stop_multiplier == 15
atr_target_multiplier == 25
partial_target_atr == 15
partial_exit_pct == 5
trailing_activation_atr == 10
atr_breakeven_multiplier == 10
use_trailing_stop == TRUE
use_partial_exit == TRUE

\* 0.8 in v2; 1.2 in the 1m class, which the "trail" family configures to 0.8
trailing_distance_atr(v) == IF v = "v2" \/ feed = "trail" THEN 8 ELSE 12
risk_per_trade(v) == IF v = "v2" THEN 10 ELSE 5            \* tenths of a percent
max_position_size(v) == IF v = "v2" THEN 20000 ELSE 10000  \* 2.0 and 1.0 lots
max_daily_loss_pct(v) == IF v = "v2" THEN 3 ELSE 2
size_step(v) == IF v = "v2" THEN 100 ELSE 10               \* round(.., 2) / round(.., 3)
bars_cap(v) == IF v = "v2" THEN 100 ELSE 999

\* Configurable caps, instantiated small so that they are reached within
\* MaxBars bars (class defaults: 15, 3, 2); the cooldown is set to 3 bars, the
\* shortest that a flat bar following a booked loss can fall into.
max_daily_trades_of(f) == IF f = "calendar" THEN 1 ELSE 2
max_consecutive_losses == IF feed = "calendar" THEN 1 ELSE 2
cooldown_bars == 3

\* longest indicator period; the periods are configurable and are set to 1
\* (2 in the "clock" family) so that the warm-up ends inside the run (v2
\* compares len < max_period, the 1m class len < min_period + 1)
max_period == IF feed = "clock" THEN 2 ELSE 1

MinSize == 100   \* the 0.01-lot floor

----------------------------------------------------------------------------
(* calculate_position_size.  equity in USD, atr in ticks, risk in tenths   *)
(* of a percent, mult in tenths, maxsize and the result in 0.0001 lot.     *)
(* The raw size risk_amount / stop_distance is the rational                *)
(*   (equity * risk * 1000) / (atr * mult)   in 0.0001-lot units.          *)

RawNum(equity, risk) == equity * risk * 1000
RawDen(atr, mult) == atr * mult

PositionSize(atr, equity, risk, mult, maxsize, step) ==
    IF atr = None \/ atr = 0 \/ atr <= 0 THEN MinSize
    ELSE IF equity <= 0 THEN MinSize
    ELSE IF RawDen(atr, mult) <= 0 THEN MinSize
    ELSE LET n == RawNum(equity, risk)
             d == RawDen(atr, mult)
             \* position_size = min(position_size, max_size)
             capped == IF n > maxsize * d THEN <<maxsize, 1>> ELSE <<n, d>>
             \* position_size = max(position_size, 0.01)
             floored == IF capped[1] < MinSize * capped[2] THEN <<MinSize, 1>> ELSE capped
         IN  \* return round(position_size, 2)
             RoundSize(floored[1], floored[2], step)

calculate_position_size(v, atr, equity) ==
    PositionSize(atr, equity, risk_per_trade(v), atr_stop_multiplier,
                 max_position_size(v), size_step(v))

----------------------------------------------------------------------------
(* Entry signals.  An indicator snapshot is abstracted to the comparisons  *)
(* the rules make: signs of differences (-1, 0, 1) and the RSI value.      *)

Sign3 == {-1, 0, 1}
RsiValues == {25, 40, 50, 60, 75}

rsi_midline == 50
rsi_overbought_v2 == 70
rsi_oversold_v2 == 30
require_macd_agreement == FALSE
allow_bb_breakout == TRUE
require_volume_surge == FALSE
require_trend == FALSE

\* v2 snapshot: cross = fast_medium_cross, mcross = macd_cross,
\* c_s = close vs ema_slow, f_m = ema_fast vs ema_medium, m_s = ema_medium vs
\* ema_slow, f_s = ema_fast vs ema_slow, bb = close vs the band (1 above top,
\* -1 below bot), macd = macd line vs signal line, surge = volume surge.
IndV2 ==
    { i \in [cross : Sign3, mcross : Sign3, c_s : Sign3, f_m : Sign3, m_s : Sign3,
             f_s : Sign3, bb : Sign3, macd : Sign3, rsi : RsiValues, surge : BOOLEAN] :
        /\ (i.f_m >= 0 /\ i.m_s >= 0) => (i.f_s >= 0 /\ (i.f_m + i.m_s > 0 => i.f_s = 1))
        /\ (i.f_m <= 0 /\ i.m_s <= 0) => (i.f_s <= 0 /\ (i.f_m + i.m_s < 0 => i.f_s = -1)) }

check_volume_surge(i) == IF ~require_volume_surge THEN TRUE ELSE i.surge

check_trend_strength(i) == IF ~require_trend THEN TRUE ELSE i.f_s # 0

check_macd_agreement(i, direction) ==
    IF ~require_macd_agreement THEN TRUE
    ELSE IF direction = "long" THEN i.macd > 0 ELSE i.macd < 0

long_signal_v2(i) ==
    LET primary == /\ i.cross > 0
                   /\ i.c_s > 0
                   /\ rsi_midline < i.rsi /\ i.rsi < rsi_overbought_v2
                   /\ check_macd_agreement(i, "long")
        alt_macd == /\ i.mcross > 0
                    /\ i.f_m > 0 /\ i.m_s > 0
                    /\ i.rsi > rsi_midline /\ i.rsi < rsi_overbought_v2
        alt_bb == /\ allow_bb_breakout
                  /\ i.bb > 0
                  /\ i.f_s > 0
                  /\ i.rsi > rsi_midline
                  /\ check_volume_surge(i)
    IN  primary \/ alt_macd \/ alt_bb

\* variant of the v2 short rules whose MACD alternative has no RSI test
short_signal_v2_any_rsi(i) ==
    LET primary == /\ i.cross < 0
                   /\ i.c_s < 0
                   /\ rsi_oversold_v2 < i.rsi /\ i.rsi < rsi_midline
                   /\ check_macd_agreement(i, "short")
        alt_macd == /\ i.mcross < 0
                    /\ i.f_m < 0 /\ i.m_s < 0
        alt_bb == /\ allow_bb_breakout
                  /\ i.bb < 0
                  /\ i.f_s < 0
                  /\ i.rsi < rsi_midline
                  /\ check_volume_surge(i)
    IN  primary \/ alt_macd \/ alt_bb

short_signal_v2(i) ==
    LET primary == /\ i.cross < 0
                   /\ i.c_s < 0
                   /\ rsi_oversold_v2 < i.rsi /\ i.rsi < rsi_midline
                   /\ check_macd_agreement(i, "short")
        alt_macd == /\ i.mcross < 0
                    /\ i.f_m < 0 /\ i.m_s < 0
                    /\ i.rsi < rsi_midline /\ i.rsi > rsi_oversold_v2
        alt_bb == /\ allow_bb_breakout
                  /\ i.bb < 0
                  /\ i.f_s < 0
                  /\ i.rsi < rsi_midline
                  /\ check_volume_surge(i)
    IN  primary \/ alt_macd \/ alt_bb

\* 1m snapshot: cross = ema_crossover, c_t = close vs trend_ema, f_s = fast_ema
\* vs slow_ema, macd = macd vs signal, macd0 = macd vs 0, bbz = zone of the
\* close in the bands (-2 below bot, -1 in [bot, mid), 0 at mid, 1 in
\* (mid, top], 2 above top), adx_ok = adx >= adx_threshold, vol_ok = volume
\* ratio >= volume_threshold.
rsi_overbought_m1 == 65
rsi_oversold_m1 == 35
rsi_neutral_high == 55
rsi_neutral_low == 45

IndM1 ==
    [cross : Sign3, c_t : Sign3, f_s : Sign3, macd : Sign3, macd0 : Sign3,
     bbz : {-2, -1, 0, 1, 2}, rsi : RsiValues, adx_ok : BOOLEAN, vol_ok : BOOLEAN]

check_volume_condition(i) == i.vol_ok

check_trend_alignment(i, direction) ==
    IF direction = "long" THEN i.c_t > 0 /\ i.f_s > 0 ELSE i.c_t < 0 /\ i.f_s < 0

check_macd_confirmation(i, direction) ==
    IF direction = "long" THEN i.macd > 0 /\ i.macd0 > 0 ELSE i.macd < 0 /\ i.macd0 < 0

check_bb_entry(i, direction) ==
    IF direction = "long" THEN i.bbz \in {-1, 0} ELSE i.bbz \in {0, 1}

long_signal_m1(i) ==
    /\ i.cross > 0
    /\ check_trend_alignment(i, "long")
    /\ check_macd_confirmation(i, "long")
    /\ check_bb_entry(i, "long")
    /\ i.rsi < rsi_overbought_m1
    /\ i.rsi > rsi_neutral_low

\* the short branch is the elif of the long crossover test
short_signal_m1(i) ==
    /\ ~(i.cross > 0)
    /\ i.cross < 0
    /\ check_trend_alignment(i, "short")
    /\ check_macd_confirmation(i, "short")
    /\ check_bb_entry(i, "short")
    /\ i.rsi > rsi_oversold_m1
    /\ i.rsi < rsi_neutral_high

\* What the indicator bank can make the entry rules see on one bar:
\* pre = the filters that precede the rules pass, long / short = rule results.
SignalsV2 ==
    { [pre |-> check_trend_strength(i) /\ check_volume_surge(i),
       long |-> long_signal_v2(i), short |-> short_signal_v2(i)] : i \in IndV2 }

SignalsM1 ==
    { [pre |-> i.adx_ok /\ check_volume_condition(i),
       long |-> long_signal_m1(i), short |-> short_signal_m1(i)] : i \in IndM1 }

Signals(v) == IF v = "v2" THEN SignalsV2 ELSE SignalsM1

\* long_signal and short_signal as the entry rules of class v compute them
\* from one snapshot of the indicators
entry_rules(v, i) ==
    IF v = "v2" THEN [long |-> long_signal_v2(i), short |-> short_signal_v2(i)]
    ELSE [long |-> long_signal_m1(i), short |-> short_signal_m1(i)]

----------------------------------------------------------------------------
(* The strategy object and the broker *)

avoid_low_volume_hours == TRUE   \* v2 option, enabled here (default False)
low_volume_start == 0
low_volume_end == 4
session_start == 9
session_end == 16
avoid_first_minutes == 5
avoid_last_minutes == 5

NoOrder == "None"

\* __init__ followed by start()
InitBot(v, cash) ==
    [ order |-> NoOrder,
      entry_price |-> None, stop_loss |-> None, take_profit |-> None,
      partial_target |-> None,
      partial_done |-> FALSE,        \* position_closed_partial / partial_exit_done
      breakeven_moved |-> FALSE,
      trailing_active |-> FALSE,
      highest_price |-> None, lowest_price |-> None,
      daily_trades |-> 0, daily_pnl |-> 0, last_trade_date |-> None,
      consecutive_losses |-> 0,
      bars_since_trade |-> IF v = "v2" THEN 0 ELSE 999,
      daily_starting_cash |-> cash ]

\* self.buy(size=..) / self.sell(size=..): the order goes to the broker and
\* the caller stores the returned reference in self.order
Submit(r, side, size, kind) ==
    [r EXCEPT !.bot.order = kind,
              !.book = Append(@, [side |-> side, size |-> size, kind |-> kind]),
              !.sent = Append(@, kind)]

\* self.order = self.close(): an order for the whole current position
Close(r, pos) ==
    IF pos > 0 THEN Submit(r, "sell", pos, "close")
    ELSE IF pos < 0 THEN Submit(r, "buy", -pos, "close")
    ELSE [r EXCEPT !.bot.order = NoOrder]

\* the log line before self.close(): 'STOP LOSS HIT' or 'TAKE PROFIT HIT'
CloseFor(r, pos, why) == [Close(r, pos) EXCEPT !.why = why]

\* backtrader Position.update(size, price)
PositionUpdate(p, dsize, price) ==
    LET newsize == p.size + dsize
    IN  IF newsize = 0 THEN [size |-> 0, price |-> 0]
        ELSE IF p.size = 0 THEN [size |-> newsize, price |-> price]
        ELSE IF (p.size > 0) = (dsize > 0)
             THEN [size |-> newsize,
                   price |-> (p.price * p.size + price * dsize) \div newsize]
        ELSE IF (p.size > 0) = (newsize > 0) THEN [size |-> newsize, price |-> p.price]
        ELSE [size |-> newsize, price |-> price]

Signed(o) == IF o.side = "buy" THEN o.size ELSE -o.size

RemoveAt(q, k) == [j \in 1..(Len(q) - 1) |-> IF j < k THEN q[j] ELSE q[j + 1]]

\* variant of reset_daily_stats that also clears the loss streak
reset_daily_stats_clears_streak(b, date, cash) ==
    IF b.last_trade_date # date
    THEN [b EXCEPT !.daily_pnl = 0, !.daily_trades = 0, !.consecutive_losses = 0,
                   !.daily_starting_cash = cash, !.last_trade_date = date]
    ELSE b

\* variant of reset_daily_stats without the date comparison
reset_daily_stats_always(b, date, cash) ==
    [b EXCEPT !.daily_pnl = 0, !.daily_trades = 0,
              !.daily_starting_cash = cash, !.last_trade_date = date]

reset_daily_stats(b, date, cash) ==
    IF b.last_trade_date # date
    THEN [b EXCEPT !.daily_pnl = 0, !.daily_trades = 0,
                   !.daily_starting_cash = cash, !.last_trade_date = date]
    ELSE b

\* abs(daily_pnl / daily_starting_cash) * 100 >= max_daily_loss, daily_pnl < 0
DailyLossHit(v, b) ==
    /\ Truthy(b.daily_starting_cash) /\ b.daily_starting_cash > 0
    /\ b.daily_pnl < 0
    /\ Abs(b.daily_pnl) >= max_daily_loss_pct(v) * b.daily_starting_cash * 1000

\* variant of check_risk_limits without the cooldown after a loss
check_risk_limits_no_cooldown(b) ==
    IF DailyLossHit("v2", b) THEN FALSE
    ELSE IF b.daily_trades >= max_daily_trades_of(feed) THEN FALSE
    ELSE IF b.consecutive_losses >= max_consecutive_losses THEN FALSE
    ELSE TRUE

\* v2 check_risk_limits, evaluated on the fields after reset_daily_stats
check_risk_limits(b) ==
    IF DailyLossHit("v2", b) THEN FALSE
    ELSE IF b.daily_trades >= max_daily_trades_of(feed) THEN FALSE
    ELSE IF b.consecutive_losses >= max_consecutive_losses THEN FALSE
    ELSE IF b.consecutive_losses > 0 /\ b.bars_since_trade < cooldown_bars THEN FALSE
    ELSE TRUE

\* 1m check_daily_limits: TRUE means the limit is exceeded
check_daily_limits(b) ==
    IF DailyLossHit("m1", b) THEN TRUE
    ELSE IF b.daily_trades >= max_daily_trades_of(feed) THEN TRUE
    ELSE FALSE

\* variant of is_trading_session that accepts every bar
is_trading_session_always(v, hour, minute) == TRUE

is_trading_session(v, hour, minute) ==
    IF v = "v2"
    THEN IF avoid_low_volume_hours /\ low_volume_start <= hour /\ hour < low_volume_end
         THEN FALSE ELSE TRUE
    ELSE IF ~(session_start * 60 <= hour * 60 + minute
              /\ hour * 60 + minute <= session_end * 60)
         THEN FALSE
         ELSE IF minute < avoid_first_minutes THEN FALSE
         ELSE IF minute >= 60 - avoid_last_minutes THEN FALSE
         ELSE TRUE

----------------------------------------------------------------------------
(* Position management.  r = [bot, book, sent, why] is the state a method  *)
(* works on (sent = the orders submitted so far, why = the logged reason   *)
(* of a full close), pos the broker position size, c the bar's close, a    *)
(* its ATR.                                                                *)

\* variant of update_trailing_stop that activates only above the threshold
update_trailing_stop_above(r, pos, c, a) ==
    IF ~use_trailing_stop \/ pos = 0 THEN r
    ELSE LET b == r.bot
             long == pos > 0
             mark0 == IF long THEN b.highest_price ELSE b.lowest_price
             mark == IF mark0 = None \/ (IF long THEN c > mark0 ELSE c < mark0)
                     THEN c ELSE mark0
             b1 == IF long THEN [b EXCEPT !.highest_price = mark]
                   ELSE [b EXCEPT !.lowest_price = mark]
             test == ~b1.trailing_active /\ Truthy(b1.entry_price)
             gain == IF long THEN mark - b1.entry_price ELSE b1.entry_price - mark
         IN  IF test /\ a = 0 THEN [r EXCEPT !.bot = b1]
             ELSE LET b2 == IF test /\ gain * 10 > trailing_activation_atr * a
                            THEN [b1 EXCEPT !.trailing_active = TRUE] ELSE b1
                      dist == (a * trailing_distance_atr("v2")) \div 10
                      new_stop == IF long THEN mark - dist ELSE mark + dist
                      b3 == IF b2.trailing_active
                               /\ (b2.stop_loss = None
                                   \/ (IF long THEN new_stop > b2.stop_loss
                                       ELSE new_stop < b2.stop_loss))
                            THEN [b2 EXCEPT !.stop_loss = new_stop] ELSE b2
                  IN  [r EXCEPT !.bot = b3]

\* v2 update_trailing_stop.  A zero ATR raises ZeroDivisionError in the
\* activation test; the bare except keeps what was assigned before it.
update_trailing_stop(r, pos, c, a) ==
    IF ~use_trailing_stop \/ pos = 0 THEN r
    ELSE LET b == r.bot
             long == pos > 0
             mark0 == IF long THEN b.highest_price ELSE b.lowest_price
             mark == IF mark0 = None \/ (IF long THEN c > mark0 ELSE c < mark0)
                     THEN c ELSE mark0
             b1 == IF long THEN [b EXCEPT !.highest_price = mark]
                   ELSE [b EXCEPT !.lowest_price = mark]
             test == ~b1.trailing_active /\ Truthy(b1.entry_price)
             gain == IF long THEN mark - b1.entry_price ELSE b1.entry_price - mark
         IN  IF test /\ a = 0 THEN [r EXCEPT !.bot = b1]
             ELSE LET b2 == IF test /\ gain * 10 >= trailing_activation_atr * a
                            THEN [b1 EXCEPT !.trailing_active = TRUE] ELSE b1
                      dist == (a * trailing_distance_atr("v2")) \div 10
                      new_stop == IF long THEN mark - dist ELSE mark + dist
                      b3 == IF b2.trailing_active
                               /\ (b2.stop_loss = None
                                   \/ (IF long THEN new_stop > b2.stop_loss
                                       ELSE new_stop < b2.stop_loss))
                            THEN [b2 EXCEPT !.stop_loss = new_stop] ELSE b2
                  IN  [r EXCEPT !.bot = b3]

\* v2 check_partial_profit.  Comparing the close with a partial_target of
\* None raises TypeError, swallowed by the bare except.
check_partial_profit(r, pos, c) ==
    IF ~use_partial_exit \/ pos = 0 \/ r.bot.partial_done THEN r
    ELSE IF r.bot.partial_target = None THEN r
    ELSE LET size_to_close == RoundSize(Abs(pos) * partial_exit_pct, 10, size_step("v2"))
         IN  IF pos > 0 /\ c >= r.bot.partial_target
             THEN IF size_to_close >= MinSize
                  THEN [Submit(r, "sell", size_to_close, "partial")
                            EXCEPT !.bot.partial_done = TRUE]
                  ELSE r
             ELSE IF pos < 0 /\ c <= r.bot.partial_target
             THEN IF size_to_close >= MinSize
                  THEN [Submit(r, "buy", size_to_close, "partial")
                            EXCEPT !.bot.partial_done = TRUE]
                  ELSE r
             ELSE r

\* the stop-loss and take-profit checks of v2 next()
check_exits_v2(r, pos, c) ==
    LET b == r.bot
    IN  IF Truthy(b.stop_loss)
           /\ ((pos > 0 /\ c <= b.stop_loss) \/ (pos < 0 /\ c >= b.stop_loss))
        THEN CloseFor(r, pos, "stop")
        ELSE IF Truthy(b.take_profit)
                /\ ((pos > 0 /\ c >= b.take_profit) \/ (pos < 0 /\ c <= b.take_profit))
        THEN CloseFor(r, pos, "target")
        ELSE r

\* 1m update_stop_and_target.  Every profit_atr division raises
\* ZeroDivisionError when the ATR is 0; the except logs and returns with
\* the assignments made so far.
update_stop_and_target(r, pos, c, a) ==
    IF pos = 0 \/ ~Truthy(r.bot.entry_price) THEN r
    ELSE LET b == r.bot
             long == pos > 0
             mark0 == IF long THEN b.highest_price ELSE b.lowest_price
             mark == IF mark0 = None \/ (IF long THEN c > mark0 ELSE c < mark0)
                     THEN c ELSE mark0
             b1 == IF long THEN [b EXCEPT !.highest_price = mark]
                   ELSE [b EXCEPT !.lowest_price = mark]
             r1 == [r EXCEPT !.bot = b1]
             gain == IF long THEN c - b1.entry_price ELSE b1.entry_price - c
             buffer == a \div 10
             \* move to breakeven
             b2 == IF ~b1.breakeven_moved /\ gain * 10 >= atr_breakeven_multiplier * a
                   THEN [b1 EXCEPT !.stop_loss = IF long THEN b1.entry_price + buffer
                                                 ELSE b1.entry_price - buffer,
                                   !.breakeven_moved = TRUE]
                   ELSE b1
             r2 == [r EXCEPT !.bot = b2]
             \* partial exit
             partial_size == (Abs(pos) * partial_exit_pct) \div 10
             takes == /\ use_partial_exit /\ ~b2.partial_done
                      /\ gain * 10 >= partial_target_atr * a
                      /\ partial_size >= MinSize
             \* trailing stop
             wgain == IF long THEN mark - b2.entry_price ELSE b2.entry_price - mark
             dist == (a * trailing_distance_atr("m1")) \div 10
             new_stop == IF long THEN mark - dist ELSE mark + dist
             trails == use_trailing_stop /\ wgain * 10 >= trailing_activation_atr * a
             b3 == IF trails
                   THEN [b2 EXCEPT !.trailing_active = TRUE,
                                   !.stop_loss =
                                       IF b2.stop_loss = None
                                          \/ (IF long THEN new_stop > b2.stop_loss
                                              ELSE new_stop < b2.stop_loss)
                                       THEN new_stop ELSE b2.stop_loss]
                   ELSE b2
             r3 == [r EXCEPT !.bot = b3]
             stop_hit == Truthy(b3.stop_loss)
                         /\ (IF long THEN c <= b3.stop_loss ELSE c >= b3.stop_loss)
             target_hit == Truthy(b3.take_profit)
                           /\ (IF long THEN c >= b3.take_profit ELSE c <= b3.take_profit)
         IN  IF a = 0 /\ ~b1.breakeven_moved THEN r1
             ELSE IF a = 0 /\ use_partial_exit /\ ~b2.partial_done THEN r2
             ELSE IF takes
                  THEN [Submit(r2, IF long THEN "sell" ELSE "buy", partial_size, "partial")
                            EXCEPT !.bot.partial_done = TRUE]
             ELSE IF a = 0 /\ use_trailing_stop THEN r2
             ELSE IF stop_hit THEN CloseFor(r3, pos, "stop")
             ELSE IF target_hit THEN CloseFor(r3, pos, "target")
             ELSE r3

----------------------------------------------------------------------------
(* next(): one bar.  d = the new bar [len, close, atr, date, hour, minute], *)
(* sig = what the entry rules see on it.                                    *)

\* variant of the EXECUTE TRADES block whose long branch calls self.sell
execute_trades_long_sells(v, r, d, sig) ==
    LET size == calculate_position_size(v, d.atr, value)
        stop_distance == (d.atr * atr_stop_multiplier) \div 10
        target_distance == (d.atr * atr_target_multiplier) \div 10
    IN  IF sig.long
        THEN [Submit(r, "sell", size, "open")
                  EXCEPT !.bot.stop_loss = d.close - stop_distance,
                         !.bot.take_profit = d.close + target_distance,
                         !.bot.highest_price = d.close]
        ELSE IF sig.short
        THEN [Submit(r, "sell", size, "open")
                  EXCEPT !.bot.stop_loss = d.close + stop_distance,
                         !.bot.take_profit = d.close - target_distance,
                         !.bot.lowest_price = d.close]
        ELSE r

\* the EXECUTE TRADES block of both classes; the long branch comes first
execute_trades(v, r, d, sig) ==
    LET size == calculate_position_size(v, d.atr, value)
        stop_distance == (d.atr * atr_stop_multiplier) \div 10
        target_distance == (d.atr * atr_target_multiplier) \div 10
        partial_distance == (d.atr * partial_target_atr) \div 10
    IN  IF sig.long
        THEN [Submit(r, "buy", size, "open")
                  EXCEPT !.bot.stop_loss = d.close - stop_distance,
                         !.bot.take_profit = d.close + target_distance,
                         !.bot.partial_target =
                             IF v = "v2" THEN d.close + partial_distance ELSE @,
                         !.bot.highest_price = d.close]
        ELSE IF sig.short
        THEN [Submit(r, "sell", size, "open")
                  EXCEPT !.bot.stop_loss = d.close + stop_distance,
                         !.bot.take_profit = d.close - target_distance,
                         !.bot.partial_target =
                             IF v = "v2" THEN d.close - partial_distance ELSE @,
                         !.bot.lowest_price = d.close]
        ELSE r

\* variant of v2 next() without the ATR validity test before the entry rules
next_v2_unchecked_atr(r, pos, d, sig) ==
    LET r1 == IF r.bot.bars_since_trade < bars_cap("v2")
              THEN [r EXCEPT !.bot.bars_since_trade = @ + 1] ELSE r
    IN  IF r1.bot.order # NoOrder THEN r1
        ELSE IF pos # 0
        THEN check_exits_v2(
                 check_partial_profit(
                     update_trailing_stop(r1, pos, d.close, d.atr), pos, d.close),
                 pos, d.close)
        ELSE IF d.len < max_period THEN r1
        ELSE LET r2 == [r1 EXCEPT !.bot = reset_daily_stats(@, d.date, value)]
             IN  IF ~check_risk_limits(r2.bot) THEN r2
                 ELSE IF ~is_trading_session("v2", d.hour, d.minute) THEN r2
                 ELSE IF ~sig.pre THEN r2
                 ELSE execute_trades("v2", r2, d, sig)

next_v2(r, pos, d, sig) ==
    LET r1 == IF r.bot.bars_since_trade < bars_cap("v2")
              THEN [r EXCEPT !.bot.bars_since_trade = @ + 1] ELSE r
    IN  IF r1.bot.order # NoOrder THEN r1
        ELSE IF pos # 0
        THEN check_exits_v2(
                 check_partial_profit(
                     update_trailing_stop(r1, pos, d.close, d.atr), pos, d.close),
                 pos, d.close)
        ELSE IF d.len < max_period THEN r1
        ELSE LET r2 == [r1 EXCEPT !.bot = reset_daily_stats(@, d.date, value)]
             IN  IF ~check_risk_limits(r2.bot) THEN r2
                 ELSE IF ~is_trading_session("v2", d.hour, d.minute) THEN r2
                 ELSE IF d.atr = 0 \/ d.atr <= 0 THEN r2
                 ELSE IF ~sig.pre THEN r2
                 ELSE execute_trades("v2", r2, d, sig)

\* variant of 1m next() that manages an open position before looking at self.order
next_m1_manages_while_pending(r, pos, d, sig) ==
    LET r1 == IF r.bot.bars_since_trade < bars_cap("m1")
              THEN [r EXCEPT !.bot.bars_since_trade = @ + 1] ELSE r
        r2 == [r1 EXCEPT !.bot = reset_daily_stats(@, d.date, value)]
    IN  IF pos # 0 THEN update_stop_and_target(r2, pos, d.close, d.atr)
        ELSE IF r2.bot.order # NoOrder THEN r2
        ELSE IF d.len < max_period + 1 THEN r2
        ELSE IF ~is_trading_session("m1", d.hour, d.minute) THEN r2
        ELSE IF check_daily_limits(r2.bot) THEN r2
        ELSE IF r2.bot.bars_since_trade < cooldown_bars THEN r2
        ELSE IF d.atr = 0 \/ d.atr <= 0 THEN r2
        ELSE IF ~sig.pre THEN r2
        ELSE execute_trades("m1", r2, d, sig)

next_m1(r, pos, d, sig) ==
    LET r1 == IF r.bot.bars_since_trade < bars_cap("m1")
              THEN [r EXCEPT !.bot.bars_since_trade = @ + 1] ELSE r
        r2 == [r1 EXCEPT !.bot = reset_daily_stats(@, d.date, value)]
    IN  IF r2.bot.order # NoOrder THEN r2
        ELSE IF pos # 0 THEN update_stop_and_target(r2, pos, d.close, d.atr)
        ELSE IF d.len < max_period + 1 THEN r2
        ELSE IF ~is_trading_session("m1", d.hour, d.minute) THEN r2
        ELSE IF check_daily_limits(r2.bot) THEN r2
        ELSE IF r2.bot.bars_since_trade < cooldown_bars THEN r2
        ELSE IF d.atr = 0 \/ d.atr <= 0 THEN r2
        ELSE IF ~sig.pre THEN r2
        ELSE execute_trades("m1", r2, d, sig)

next(v, r, pos, d, sig) ==
    IF v = "v2" THEN next_v2(r, pos, d, sig) ELSE next_m1(r, pos, d, sig)

----------------------------------------------------------------------------
(* notify_order.  b = the strategy fields, o = the order, price = the      *)
(* executed price, pos = self.position.size as the callback sees it, that  *)
(* is after the broker applied the fill.                                   *)

ResetFields(b) ==
    [b EXCEPT !.entry_price = None, !.stop_loss = None, !.take_profit = None,
              !.partial_target = None, !.highest_price = None, !.lowest_price = None,
              !.trailing_active = FALSE, !.partial_done = FALSE]

OnEntryV2(b, price) ==
    [b EXCEPT !.entry_price = price, !.bars_since_trade = 0,
              !.trailing_active = FALSE, !.partial_done = FALSE,
              !.daily_trades = @ + 1]

\* the pnl of the "Closing a position" branch of v2
ClosePnlV2(b, o, price, pos) ==
    IF pos > 0 THEN (price - b.entry_price) * o.size
    ELSE (b.entry_price - price) * o.size

notify_completed_v2(b, o, price, pos) ==
    IF o.side = "buy"
    THEN IF ~Truthy(b.entry_price) THEN OnEntryV2(b, price) ELSE b
    ELSE IF ~Truthy(b.entry_price) THEN OnEntryV2(b, price)
    ELSE LET pnl == ClosePnlV2(b, o, price, pos)
             b1 == [b EXCEPT !.daily_pnl = @ + pnl,
                             !.consecutive_losses = IF pnl < 0 THEN @ + 1 ELSE 0]
         IN  IF pos = 0 THEN ResetFields(b1) ELSE b1

\* variant of the 1m handler whose sell branch resets without testing
\* self.position
notify_completed_m1_resets_on_partial(b, o, price, pos) ==
    IF o.side = "buy"
    THEN [b EXCEPT !.entry_price = price, !.bars_since_trade = 0,
                   !.breakeven_moved = FALSE, !.partial_done = FALSE,
                   !.trailing_active = FALSE, !.daily_trades = @ + 1]
    ELSE LET b1 == IF Truthy(b.entry_price) /\ o.size > 10
                   THEN [b EXCEPT !.daily_pnl = @ + (price - b.entry_price) * o.size]
                   ELSE b
         IN  [b1 EXCEPT !.entry_price = None, !.stop_loss = None,
                        !.take_profit = None, !.highest_price = None,
                        !.lowest_price = None, !.breakeven_moved = FALSE,
                        !.partial_done = FALSE, !.trailing_active = FALSE]

notify_completed_m1(b, o, price, pos) ==
    IF o.side = "buy"
    THEN [b EXCEPT !.entry_price = price, !.bars_since_trade = 0,
                   !.breakeven_moved = FALSE, !.partial_done = FALSE,
                   !.trailing_active = FALSE, !.daily_trades = @ + 1]
    ELSE LET b1 == IF Truthy(b.entry_price) /\ o.size > 10
                   THEN [b EXCEPT !.daily_pnl = @ + (price - b.entry_price) * o.size]
                   ELSE b
         IN  IF pos = 0
             THEN [b1 EXCEPT !.entry_price = None, !.stop_loss = None,
                             !.take_profit = None, !.highest_price = None,
                             !.lowest_price = None, !.breakeven_moved = FALSE,
                             !.partial_done = FALSE, !.trailing_active = FALSE]
             ELSE b1

\* status Completed, then the common tail self.order = None
notify_order_completed(v, b, o, price, pos) ==
    [(IF v = "v2" THEN notify_completed_v2(b, o, price, pos)
      ELSE notify_completed_m1(b, o, price, pos)) EXCEPT !.order = NoOrder]

\* variant of the rejection branch that also resets the position fields
notify_order_rejected_resets(b) == ResetFields([b EXCEPT !.order = NoOrder])

\* status Canceled, Margin or Rejected: log, then self.order = None
notify_order_rejected(b) == [b EXCEPT !.order = NoOrder]

----------------------------------------------------------------------------
(* History of the account, kept beside the strategy's own bookkeeping:     *)
(* entry fills and realized P&L of the current calendar date, whether the  *)
(* date's loss cap was reached, the run of losing closes, and the realized *)
(* P&L since the strategy last reset its daily fields.                     *)

\* size of the position that a fill of order o closes
ClosedSize(p, o) ==
    IF p.size # 0 /\ (p.size > 0) # (Signed(o) > 0) THEN Min(Abs(p.size), o.size) ELSE 0

\* realized P&L of a fill: (exit - entry) * size for a long, (entry - exit) * size
\* for a short, on the broker's position p before the fill
RealizedPnl(p, o, price) ==
    IF p.size > 0 THEN (price - p.price) * ClosedSize(p, o)
    ELSE (p.price - price) * ClosedSize(p, o)

LossCapReached(realized, equity) ==
    equity > 0 /\ realized <= -(max_daily_loss_pct(variant) * equity * 1000)

NoHist == [entries |-> 0, realized |-> 0, loss_hit |-> FALSE, streak |-> 0,
           since_reset |-> 0, partial_filled |-> FALSE]

\* a bar arrives; reset = the strategy reset its daily fields on it
HistOnBar(h, olddate, newdate, reset) ==
    LET h1 == IF newdate # olddate
              THEN [h EXCEPT !.entries = 0, !.realized = 0, !.loss_hit = FALSE]
              ELSE h
    IN  IF reset THEN [h1 EXCEPT !.since_reset = 0] ELSE h1

HistOnFill(h, p, o, price) ==
    LET pnl == RealizedPnl(p, o, price)
        closes == ClosedSize(p, o) > 0
        realized == h.realized + pnl
    IN  [entries |-> IF o.kind = "open" THEN h.entries + 1 ELSE h.entries,
         realized |-> realized,
         since_reset |-> h.since_reset + pnl,
         loss_hit |-> h.loss_hit \/ (closes /\ LossCapReached(realized, value)),
         streak |-> IF ~closes THEN h.streak ELSE IF pnl < 0 THEN h.streak + 1 ELSE 0,
         \* a partial-close order has reduced the position that is now open
         partial_filled |-> IF p.size = 0 \/ p.size + Signed(o) = 0
                               \/ (p.size > 0) # (p.size + Signed(o) > 0) THEN FALSE
                            ELSE h.partial_filled \/ (o.kind = "partial" /\ closes)]

----------------------------------------------------------------------------
(* CustomAnalyzer of the backtest runner.  trades is len(self.trades);      *)
(* current_trade is the dict {} or a dict whose 'type' is 'long'.           *)

InitAnalyzer == [trades |-> 0, current_trade |-> "{}"]

\* CustomAnalyzer.notify_order for an order whose status is Completed
analyzer_notify_order(an, o) ==
    IF o.side = "buy" THEN [an EXCEPT !.current_trade = "long"]
    ELSE IF o.side = "sell" /\ an.current_trade # "{}"
    THEN [trades |-> an.trades + 1, current_trade |-> "{}"]
    ELSE an

----------------------------------------------------------------------------
(* The state machine *)

NoSizer == [atr |-> 0, equity |-> 0, risk |-> 0, mult |-> 0, maxsize |-> 0,
            step |-> 0, result |-> None]

NoSignal == [pre |-> FALSE, long |-> FALSE, short |-> FALSE]

\* the components that a run of the strategy does not involve
NoCall == [fn |-> "", done |-> FALSE]
NoWeb == [session_pnl |-> 0, accepted |-> 0, handled |-> 0, status |-> 0]
NoLive == [position |-> {}, calls |-> 0]     \* position {} is None, {p} the dict p

\* an event: what happened last.  A bar event carries the orders next() sent,
\* the logged reason of a full close and, when an entry was sent, what the
\* entry rules saw; a fill or rejection carries the order and the price.
Event(type, sent, why, sig, o, price) ==
    [type |-> type, sent |-> sent, why |-> why, sig |-> sig,
     kind |-> o.kind, side |-> o.side, size |-> o.size, price |-> price]

NoOrderRec == [kind |-> NoOrder, side |-> "", size |-> 0]

NoBar == [len |-> 0, close |-> None, atr |-> None, date |-> 1, hour |-> 0, minute |-> 0]

Init ==
    /\ variant \in {"v2", "m1"}
    /\ value \in BrokerValues
    /\ feed \in Feeds
    /\ bot = InitBot(variant, value)
    /\ position = [size |-> 0, price |-> 0]
    /\ book = <<>>
    /\ data = NoBar
    /\ ev = Event("init", <<>>, "", NoSignal, NoOrderRec, 0)
    /\ hist = NoHist
    /\ analyzer = InitAnalyzer
    /\ sz = NoSizer
    /\ call = NoCall /\ web = NoWeb /\ live = NoLive

\* the feed delivers the next bar and the strategy's next() runs on it
Bar ==
    /\ data.len < MaxBars
    /\ \E c \in Prices(feed), a \in Atrs(feed), t \in BarTimes(feed),
          sig \in Signals(variant), step \in DateSteps(feed) :
        /\ data.date + step <= MaxDate
        /\ LET d == [len |-> data.len + 1, close |-> c, atr |-> a,
                     date |-> data.date + step,
                     hour |-> t[1], minute |-> t[2]]
               r == next(variant, [bot |-> bot, book |-> book, sent |-> <<>>, why |-> ""],
                         position.size, d, sig)
               entered == \E j \in 1..Len(r.sent) : r.sent[j] = "open"
           IN  /\ data' = d
               /\ bot' = r.bot
               /\ book' = r.book
               /\ ev' = Event("bar", r.sent, r.why, IF entered THEN sig ELSE NoSignal,
                              NoOrderRec, 0)
               /\ hist' = HistOnBar(hist, data.date, d.date,
                                    r.bot.last_trade_date # bot.last_trade_date)
    /\ UNCHANGED <<variant, position, feed, value, analyzer, sz, call, web, live>>

\* the broker executes an outstanding order at the market and notifies the
\* strategy
Fill ==
    /\ \E k \in 1..Len(book), price \in FillPrices(feed, data.close) :
        LET o == book[k]
            p == PositionUpdate(position, Signed(o), price)
        IN  /\ position' = p
            /\ book' = RemoveAt(book, k)
            /\ bot' = notify_order_completed(variant, bot, o, price, p.size)
            /\ ev' = Event("fill", <<>>, "", NoSignal, o, price)
            /\ hist' = HistOnFill(hist, position, o, price)
            /\ analyzer' = analyzer_notify_order(analyzer, o)
    /\ UNCHANGED <<variant, feed, data, value, sz, call, web, live>>

\* the broker cancels or rejects an outstanding order and notifies the strategy
Reject ==
    /\ \E k \in 1..Len(book) :
        LET o == book[k]
        IN  /\ book' = RemoveAt(book, k)
            /\ bot' = notify_order_rejected(bot)
            /\ ev' = Event("reject", <<>>, "", NoSignal, o, 0)
    /\ UNCHANGED <<variant, position, feed, data, value, hist, analyzer, sz, call, web, live>>

Next == Bar \/ Fill \/ Reject

Spec == Init /\ [][Next]_vars

----------------------------------------------------------------------------
(* Harness of the entry rules: one call on one snapshot of the indicators *)

SigInit ==
    /\ variant \in {"v2", "m1"}
    /\ value = 10000
    /\ feed = "price"
    /\ bot = InitBot(variant, value)
    /\ position = [size |-> 0, price |-> 0]
    /\ book = <<>>
    /\ data = NoBar
    /\ ev = Event("init", <<>>, "", NoSignal, NoOrderRec, 0)
    /\ hist = NoHist
    /\ analyzer = InitAnalyzer
    /\ sz = NoSizer
    /\ call \in { [fn |-> "entry_rules", arg |-> i, done |-> FALSE,
                    result |-> [long |-> FALSE, short |-> FALSE]] :
                  i \in IF variant = "v2" THEN IndV2 ELSE IndM1 }
    /\ web = NoWeb /\ live = NoLive

EvalRules ==
    /\ call.fn = "entry_rules" /\ ~call.done
    /\ call' = [call EXCEPT !.done = TRUE, !.result = entry_rules(variant, call.arg)]
    /\ UNCHANGED <<variant, bot, position, book, feed, data, value, ev, hist, analyzer,
                   sz, web, live>>

SigNext == EvalRules

SigSpec == SigInit /\ [][SigNext]_vars

----------------------------------------------------------------------------
(* The webhook service, src/server.py.  Prices and quantities are integers;  *)
(* a request is [symbol, side, price, quantity, signature].  The HMAC-SHA256  *)
(* digest of a body under a key is represented by the pair <<key, body>>     *)
(* (distinct inputs give distinct digests); a missing header is <<>>.        *)

MaxRequests == 3      \* requests the service handles in one run

WEBHOOK_SECRET == "default_secret_change_me"
ALLOWED_SYMBOLS == {"BTCUSDT", "ETHUSDT", "LTCUSDT"}

Body(symbol, side, price, quantity) ==
    [symbol |-> symbol, side |-> side, price |-> price, quantity |-> quantity]

Hmac(key, body) == <<key, body>>

\* str.lower() on the side strings that occur
Lower(str) ==
    IF str \in {"buy", "BUY", "Buy"} THEN "buy"
    ELSE IF str \in {"sell", "SELL"} THEN "sell"
    ELSE str

\* signature |-> 1..4 selects what the client put in X-Webhook-Signature: no
\* header, the digest under the secret, the digest under another key, the
\* digest of a different body
Requests ==
    { [symbol |-> b.symbol, side |-> b.side, price |-> b.price,
       quantity |-> b.quantity, signature |-> sig] :
        b \in { Body(sy, sd, pr, q) : sy \in {"LTCUSDT", "DOGEUSDT"},
                                      sd \in {"buy", "BUY", "sell", "hold"},
                                      pr \in {100, 250}, q \in {1, 2} },
        sig \in {1, 2, 3, 4} }

SignatureOf(req) ==
    LET body == Body(req.symbol, req.side, req.price, req.quantity)
    IN  IF req.signature = 1 THEN <<>>
        ELSE IF req.signature = 2 THEN Hmac(WEBHOOK_SECRET, body)
        ELSE IF req.signature = 3 THEN Hmac("other_secret", body)
        ELSE Hmac(WEBHOOK_SECRET, [body EXCEPT !.quantity = @ + 1])

\* variant of webhook that compares the side without lower()
webhook_case_sensitive(w, req) ==
    LET body == Body(req.symbol, req.side, req.price, req.quantity)
        expected_sig == Hmac(WEBHOOK_SECRET, body)
    IN  IF SignatureOf(req) # expected_sig THEN [w EXCEPT !.status = 401]
        ELSE IF req.symbol \notin ALLOWED_SYMBOLS THEN [w EXCEPT !.status = 400]
        ELSE LET pnl == req.quantity * req.price
                        * (IF req.side = "buy" THEN 1 ELSE -1)
             IN  [w EXCEPT !.session_pnl = @ + pnl, !.status = 200]

\* POST /webhook: the state of the service after the request, status = the
\* HTTP status of the response
webhook(w, req) ==
    LET body == Body(req.symbol, req.side, req.price, req.quantity)
        expected_sig == Hmac(WEBHOOK_SECRET, body)
    IN  IF SignatureOf(req) # expected_sig THEN [w EXCEPT !.status = 401]
        ELSE IF req.symbol \notin ALLOWED_SYMBOLS THEN [w EXCEPT !.status = 400]
        ELSE LET pnl == req.quantity * req.price
                        * (IF Lower(req.side) = "buy" THEN 1 ELSE -1)
             IN  [w EXCEPT !.session_pnl = @ + pnl, !.status = 200]

\* the signed notional of a request as a client reads it
SignedNotional(req) ==
    IF req.side \in {"buy", "BUY", "Buy"} THEN req.quantity * req.price
    ELSE -(req.quantity * req.price)

WebInit ==
    /\ variant = "v2"
    /\ value = 10000
    /\ feed = "price"
    /\ bot = InitBot(variant, value)
    /\ position = [size |-> 0, price |-> 0]
    /\ book = <<>>
    /\ data = NoBar
    /\ ev = Event("init", <<>>, "", NoSignal, NoOrderRec, 0)
    /\ hist = NoHist
    /\ analyzer = InitAnalyzer
    /\ sz = NoSizer
    /\ call = NoCall
    /\ web = [session_pnl |-> 0, accepted |-> 0, handled |-> 0, status |-> 0,
              req |-> [symbol |-> "", side |-> "", price |-> 0, quantity |-> 0,
                       signature |-> 1]]
    /\ live = NoLive

\* one request is handled; accepted is the sum of the signed notionals of the
\* requests answered 200, req the request just handled (history)
Webhook ==
    /\ web.handled < MaxRequests
    /\ \E req \in Requests :
         LET w == webhook(web, req)
         IN  web' = [w EXCEPT !.handled = @ + 1, !.req = req,
                              !.accepted = IF w.status = 200
                                           THEN @ + SignedNotional(req) ELSE @]
    /\ UNCHANGED <<variant, bot, position, book, feed, data, value, ev, hist, analyzer,
                   sz, call, live>>

WebNext == Webhook

WebSpec == WebInit /\ [][WebNext]_vars

----------------------------------------------------------------------------
(* LiveTradingBot, src/strategies/tradelocker_config.py.  self.position is   *)
(* the set {} (None) or {p} with p the dict written by a signal handler.     *)
(* A response is its HTTP status, 0 when requests.post raised.               *)

MaxCalls == 3         \* handler calls made on one bot

send_signal(webhook_url, status) ==
    IF webhook_url = "" THEN FALSE
    ELSE status = 200

\* the f-strings divide by price before the signal is sent
on_buy_signal(l, price, stop_loss, take_profit, size, status) ==
    IF price = 0 THEN [l EXCEPT !.raised = TRUE, !.ok = FALSE]
    ELSE LET success == send_signal(l.url, status)
         IN  [l EXCEPT !.raised = FALSE, !.ok = success,
                       !.position = IF success
                                    THEN {[type |-> "LONG", entry |-> price,
                                           sl |-> stop_loss, tp |-> take_profit,
                                           size |-> size]}
                                    ELSE @]

on_sell_signal(l, price, stop_loss, take_profit, size, status) ==
    IF price = 0 THEN [l EXCEPT !.raised = TRUE, !.ok = FALSE]
    ELSE LET success == send_signal(l.url, status)
         IN  [l EXCEPT !.raised = FALSE, !.ok = success,
                       !.position = IF success
                                    THEN {[type |-> "SHORT", entry |-> price,
                                           sl |-> stop_loss, tp |-> take_profit,
                                           size |-> size]}
                                    ELSE @]

\* pnl_pct = pnl / (entry * size) * 100 is evaluated before the position is
\* cleared; a zero divisor raises ZeroDivisionError out of the handler
on_exit_signal(l, price) ==
    IF l.position = {} THEN [l EXCEPT !.raised = FALSE, !.ok = FALSE]
    ELSE LET pos == CHOOSE q \in l.position : TRUE
         IN  IF pos.entry * pos.size = 0
             THEN [l EXCEPT !.raised = TRUE, !.ok = FALSE]
             ELSE [l EXCEPT !.raised = FALSE, !.ok = FALSE, !.position = {}]

LivePrices == {0, 1000, 1020}       \* ticks
LiveSizes == {0, 100}               \* 0.0001 lot
LiveStatuses == {0, 200, 500}

LiveInit ==
    /\ variant = "v2"
    /\ value = 10000
    /\ feed = "price"
    /\ bot = InitBot(variant, value)
    /\ position = [size |-> 0, price |-> 0]
    /\ book = <<>>
    /\ data = NoBar
    /\ ev = Event("init", <<>>, "", NoSignal, NoOrderRec, 0)
    /\ hist = NoHist
    /\ analyzer = InitAnalyzer
    /\ sz = NoSizer
    /\ call = NoCall
    /\ web = NoWeb
    /\ \E u \in {"", "https://hook"} :
         live = [position |-> {}, calls |-> 0, url |-> u, op |-> "",
                 ok |-> FALSE, raised |-> FALSE]

OnBuySignal ==
    /\ live.calls < MaxCalls
    /\ \E price \in LivePrices, sl \in {990}, tp \in {1030, 1040},
          size \in LiveSizes, status \in LiveStatuses :
         live' = [on_buy_signal(live, price, sl, tp, size, status)
                    EXCEPT !.calls = @ + 1, !.op = "buy"]
    /\ UNCHANGED <<variant, bot, position, book, feed, data, value, ev, hist, analyzer,
                   sz, call, web>>

OnSellSignal ==
    /\ live.calls < MaxCalls
    /\ \E price \in LivePrices, sl \in {1030}, tp \in {980, 990},
          size \in LiveSizes, status \in LiveStatuses :
         live' = [on_sell_signal(live, price, sl, tp, size, status)
                    EXCEPT !.calls = @ + 1, !.op = "sell"]
    /\ UNCHANGED <<variant, bot, position, book, feed, data, value, ev, hist, analyzer,
                   sz, call, web>>

OnExitSignal ==
    /\ live.calls < MaxCalls
    /\ \E price \in LivePrices :
         live' = [on_exit_signal(live, price) EXCEPT !.calls = @ + 1, !.op = "exit"]
    /\ UNCHANGED <<variant, bot, position, book, feed, data, value, ev, hist, analyzer,
                   sz, call, web>>

LiveNext == OnBuySignal \/ OnSellSignal \/ OnExitSignal

LiveSpec == LiveInit /\ [][LiveNext]_vars

----------------------------------------------------------------------------
(* _safe_param.  A Python value is [tag, s, n]: tag "str" with s the string, *)
(* "int" with n the integer, "float" with n in tenths, "bool" with n 0 or 1, *)
(* "none" for None; the field a tag does not use is "" or 0.  PyEq is        *)
(* Python's ==: numbers and booleans compare by numeric value, a string      *)
(* equals only an equal string, None equals only None.                       *)

Py(tag, s, n) == [tag |-> tag, s |-> s, n |-> n]

PyEq(a, b) ==
    LET num(x) == IF x.tag = "float" THEN x.n ELSE x.n * 10
        numeric(x) == x.tag \in {"int", "float", "bool"}
    IN  CASE numeric(a) /\ numeric(b) -> num(a) = num(b)
          [] a.tag = "str" /\ b.tag = "str" -> a.s = b.s
          [] a.tag = "none" /\ b.tag = "none" -> TRUE
          [] OTHER -> FALSE

\* a variant that also takes a value equal to 0 (0, 0.0, False) for a missing one
_safe_param_falsy(val, default) ==
    IF \/ PyEq(val, Py("str", "undefined", 0))
       \/ val.tag = "none"
       \/ PyEq(val, Py("str", "", 0))
       \/ PyEq(val, Py("int", "", 0))
    THEN default
    ELSE val

_safe_param(val, default) ==
    IF \/ PyEq(val, Py("str", "undefined", 0))
       \/ val.tag = "none"
       \/ PyEq(val, Py("str", "", 0))
    THEN default
    ELSE val

PyValues ==
    { Py("str", "undefined", 0), Py("str", "", 0), Py("none", "", 0),
      Py("str", "Undefined", 0), Py("str", " ", 0), Py("str", "0", 0), Py("str", "None", 0),
      Py("int", "", 0), Py("int", "", 14), Py("float", "", 0), Py("float", "", 15),
      Py("bool", "", 0), Py("bool", "", 1) }

PyDefaults ==
    { Py("int", "", 14), Py("float", "", 15), Py("bool", "", 1), Py("int", "", 0), Py("none", "", 0) }

SafeInit ==
    /\ variant = "v2"
    /\ value = 10000
    /\ feed = "price"
    /\ bot = InitBot(variant, value)
    /\ position = [size |-> 0, price |-> 0]
    /\ book = <<>>
    /\ data = NoBar
    /\ ev = Event("init", <<>>, "", NoSignal, NoOrderRec, 0)
    /\ hist = NoHist
    /\ analyzer = InitAnalyzer
    /\ sz = NoSizer
    /\ web = NoWeb
    /\ live = NoLive
    /\ \E x \in PyValues, d \in PyDefaults :
         call = [fn |-> "_safe_param", arg |-> [value |-> x, default |-> d],
                 done |-> FALSE, result |-> Py("none", "", 0)]

SafeParam ==
    /\ call.fn = "_safe_param"
    /\ ~call.done
    /\ call' = [call EXCEPT !.done = TRUE,
                            !.result = _safe_param(call.arg.value, call.arg.default)]
    /\ UNCHANGED <<variant, bot, position, book, feed, data, value, ev, hist, analyzer,
                   sz, web, live>>

SafeNext == SafeParam

SafeSpec == SafeInit /\ [][SafeNext]_vars

----------------------------------------------------------------------------
(* Position-sizer harness: one call of calculate_position_size on inputs   *)
(* drawn from small sets; the strategy itself does not move.               *)

SizerAtrs == {-5, 0, 5, 20}                      \* ticks; 5 = 0.5 USD
SizerEquities == {-100, 0, 3, 100, 10000}        \* USD
SizerRisks == {5, 10}                            \* 0.5 % and 1 %
SizerMults == {15, 30}                           \* 1.5 and 3.0
SizerMaxSizes == {10000, 20000, 10060, 10006}    \* 1.0, 2.0, 1.006, 1.0006 lots
SizerSteps == {100, 10}                          \* round(.., 2) and round(.., 3)

SizeInit ==
    /\ variant = "v2"
    /\ value = 10000
    /\ feed = "price"
    /\ bot = InitBot(variant, value)
    /\ position = [size |-> 0, price |-> 0]
    /\ book = <<>>
    /\ data = NoBar
    /\ ev = Event("init", <<>>, "", NoSignal, NoOrderRec, 0)
    /\ hist = NoHist
    /\ analyzer = InitAnalyzer
    /\ sz \in [atr : SizerAtrs, equity : SizerEquities, risk : SizerRisks,
               mult : SizerMults, maxsize : SizerMaxSizes, step : SizerSteps,
               result : {None}]
    /\ call = NoCall /\ web = NoWeb /\ live = NoLive

CalcSize ==
    /\ sz.result = None
    /\ sz' = [sz EXCEPT !.result =
                  PositionSize(sz.atr, sz.equity, sz.risk, sz.mult, sz.maxsize, sz.step)]
    /\ UNCHANGED <<variant, bot, position, book, feed, data, value, ev, hist, analyzer,
                   call, web, live>>

SizeNext == CalcSize

SizeSpec == SizeInit /\ [][SizeNext]_vars

----------------------------------------------------------------------------
(* Properties *)

\* C1: on a bar processed while a position is open the engine submits at
\* most one order, never a partial close and a full close together.
C1_OneOrderPerBar ==
    (ev.type = "bar" /\ position.size # 0) => Len(ev.sent) <= 1

\* C2: at most one order is submitted and not yet filled or rejected.
C2_OneOutstanding == Len(book) <= 1

\* C3: an entry order is submitted only when the position is flat and no
\* order is outstanding, and an open position never grows: a fill moves the
\* position away from flat only as the fill of an entry order, and never
\* increases the size of a position that is already open.
C3_EntryOnlyFlat ==
    [][ /\ (ev'.type = "bar" /\ \E j \in 1..Len(ev'.sent) : ev'.sent[j] = "open")
            => (position.size = 0 /\ book = <<>>)
        /\ (ev'.type = "fill" /\ position.size # 0)
            => Abs(position'.size) <= Abs(position.size)
        /\ (ev'.type = "fill" /\ position.size = 0 /\ position'.size # 0)
            => ev'.kind = "open" ]_vars

\* the observable lifecycle state: position side and pending order kind
Side == IF position.size > 0 THEN "Long" ELSE IF position.size < 0 THEN "Short" ELSE "Flat"

Lifecycle ==
    IF position.size = 0
    THEN IF bot.order = NoOrder THEN "FLAT"
         ELSE IF bot.order = "open" THEN "ENTRY_PENDING" ELSE "INVALID"
    ELSE IF bot.order = NoOrder THEN "OPEN"
         ELSE IF bot.order = "partial" THEN "PARTIAL_PENDING"
         ELSE IF bot.order = "close" THEN "EXIT_PENDING" ELSE "INVALID"

LifecycleSteps ==
    { <<"FLAT", "ENTRY_PENDING">>, <<"ENTRY_PENDING", "OPEN">>, <<"ENTRY_PENDING", "FLAT">>,
      <<"OPEN", "PARTIAL_PENDING">>, <<"PARTIAL_PENDING", "OPEN">>,
      <<"OPEN", "EXIT_PENDING">>, <<"EXIT_PENDING", "FLAT">>, <<"EXIT_PENDING", "OPEN">> }

\* C4: the lifecycle only takes the transitions of the state diagram, and
\* the position never flips between Long and Short in one step.
C4_LifecycleSteps ==
    [][ /\ Lifecycle' # Lifecycle => <<Lifecycle, Lifecycle'>> \in LifecycleSteps
        /\ ~(Side = "Long" /\ Side' = "Short")
        /\ ~(Side = "Short" /\ Side' = "Long") ]_vars

\* C5: the sizer's output lies in [0.01, max_position_size] whenever ATR > 0
\* and equity > 0, and is exactly 0.01 whenever ATR <= 0 or equity <= 0.
C5_SizeInRange ==
    sz.result # None =>
        IF sz.atr > 0 /\ sz.equity > 0
        THEN MinSize <= sz.result /\ sz.result <= sz.maxsize
        ELSE sz.result = MinSize

\* clamp(round(risk_amount / stop_distance, precision), 0.01, max_position_size)
RoundThenClamp(atr, equity, risk, mult, maxsize, step) ==
    LET rounded == RoundSize(RawNum(equity, risk), RawDen(atr, mult), step)
    IN  Max(MinSize, Min(rounded, maxsize))

\* C6: for valid inputs the sizer's output equals the raw size rounded to the
\* configured precision and then clamped to [0.01, max_position_size].
C6_RoundThenClamp ==
    (sz.result # None /\ sz.atr > 0 /\ sz.equity > 0) =>
        sz.result = RoundThenClamp(sz.atr, sz.equity, sz.risk, sz.mult, sz.maxsize, sz.step)

EntrySent(e) == e.type = "bar" /\ \E j \in 1..Len(e.sent) : e.sent[j] = "open"

\* the order whose fill or rejection event e reports
EventOrder(e) == [side |-> e.side, size |-> e.size, kind |-> e.kind]

\* C7: once the realized P&L of a calendar date divided by the date's
\* starting equity is at or below -max_daily_loss_pct/100, no entry order is
\* submitted on a later bar of that date.
C7_NoEntryAfterLossCap ==
    [][ (hist.loss_hit /\ ev'.type = "bar" /\ data'.date = data.date)
            => ~EntrySent(ev') ]_vars

\* C8: the number of entry fills on a calendar date never exceeds
\* max_daily_trades.
C8_EntryFillsCapped == hist.entries <= max_daily_trades_of(feed)

\* C9: in v2, after max_consecutive_losses consecutive losing closes no entry
\* order is submitted until a winning close, and the streak veto is not in
\* force after fewer consecutive real losses.
C9_StreakVeto ==
    [][ variant = "v2" =>
          /\ (hist.streak >= max_consecutive_losses /\ ev'.type = "bar")
                => ~EntrySent(ev')
          /\ bot'.consecutive_losses >= max_consecutive_losses
                => hist'.streak >= max_consecutive_losses ]_vars

\* C10: in v2, a closing fill with negative realized P&L increments
\* consecutive_losses by one, one with positive realized P&L resets it to 0,
\* and a fill that opens a position leaves it unchanged.
C10_StreakCounts ==
    [][ (variant = "v2" /\ ev'.type = "fill") =>
          LET o == EventOrder(ev')
              pnl == RealizedPnl(position, o, ev'.price)
              closes == ClosedSize(position, o) > 0
          IN  /\ (closes /\ pnl < 0)
                    => bot'.consecutive_losses = bot.consecutive_losses + 1
              /\ (closes /\ pnl > 0) => bot'.consecutive_losses = 0
              /\ ~closes => bot'.consecutive_losses = bot.consecutive_losses ]_vars

\* C11: daily_pnl equals the sum of the realized P&L of all partial-close and
\* full-close fills since the strategy's last daily reset, for Long and Short.
C11_DailyPnlIsRealized == bot.daily_pnl = hist.since_reset

\* the bar that arrives is the first bar of its calendar date
FirstBarOfDate == data.len = 0 \/ data'.date # data.date

\* C12: the daily risk fields are reset on the first bar of every calendar
\* date, whatever the position and the pending order, and on no other bar.
C12_ResetOncePerDate ==
    [][ ev'.type = "bar" =>
          IF FirstBarOfDate
          THEN /\ bot'.daily_pnl = 0 /\ bot'.daily_trades = 0
               /\ bot'.daily_starting_cash = value
               /\ bot'.last_trade_date = data'.date
          ELSE /\ bot'.daily_pnl = bot.daily_pnl
               /\ bot'.daily_trades = bot.daily_trades
               /\ bot'.daily_starting_cash = bot.daily_starting_cash ]_vars

\* C13: reset_daily_stats changes nothing when last_trade_date is the bar's
\* date: a bar of the date the fields were last reset for leaves daily_pnl,
\* daily_trades and daily_starting_cash as they are, and a second call for the
\* same date has no further effect.
C13_ResetNoOpSameDate ==
    [][ /\ (ev'.type = "bar" /\ bot.last_trade_date = data'.date)
            => /\ bot'.daily_pnl = bot.daily_pnl
               /\ bot'.daily_trades = bot.daily_trades
               /\ bot'.daily_starting_cash = bot.daily_starting_cash
               /\ bot'.last_trade_date = bot.last_trade_date
        /\ \A dt \in 1..MaxDate, c1 \in BrokerValues, c2 \in BrokerValues :
              reset_daily_stats(reset_daily_stats(bot, dt, c1), dt, c2)
                  = reset_daily_stats(bot, dt, c1) ]_vars

\* a bar was processed on the date of the last reset with trades counted
C13_Witness ==
    /\ ev.type = "bar" /\ bot.last_trade_date = data.date
    /\ bot.daily_trades > 0 /\ bot.daily_pnl # 0

\* the position is open before and after the step, on the same side
StaysOpen ==
    \/ (position.size > 0 /\ position'.size > 0)
    \/ (position.size < 0 /\ position'.size < 0)

\* C14: while a position remains open, breakeven_moved and the partial-done
\* flag never go from true back to false.
C14_FlagsMonotone ==
    [][ StaysOpen =>
          /\ (bot.breakeven_moved => bot'.breakeven_moved)
          /\ (bot.partial_done => bot'.partial_done) ]_vars

\* a partial close of an open position was filled with both flags set
C14_Witness ==
    /\ ev.type = "fill" /\ ev.kind = "partial" /\ position.size # 0
    /\ bot.partial_done /\ bot.breakeven_moved

\* C15: once trailing_active is true for an open position, stop_loss never
\* decreases for a Long and never increases for a Short.
C15_TrailingStopMonotone ==
    [][ (StaysOpen /\ bot.trailing_active /\ bot.stop_loss # None) =>
          /\ bot'.stop_loss # None
          /\ (position.size > 0 => bot'.stop_loss >= bot.stop_loss)
          /\ (position.size < 0 => bot'.stop_loss <= bot.stop_loss) ]_vars

\* C16: after every full-close fill the lifecycle fields are reset: prices,
\* targets and watermarks cleared, the three flags false.
C16_ResetOnFullClose ==
    [][ (ev'.type = "fill" /\ position.size # 0 /\ position'.size = 0) =>
          /\ bot'.entry_price = None /\ bot'.stop_loss = None
          /\ bot'.take_profit = None /\ bot'.partial_target = None
          /\ bot'.highest_price = None /\ bot'.lowest_price = None
          /\ ~bot'.trailing_active /\ ~bot'.breakeven_moved
          /\ ~bot'.partial_done ]_vars

\* C17: a rejection or cancellation only clears the pending-order reference:
\* the position and every other strategy field are unchanged and no order is
\* submitted by the notification.
C17_RejectOnlyClearsOrder ==
    [][ ev'.type = "reject" =>
          /\ bot' = [bot EXCEPT !.order = NoOrder]
          /\ position' = position
          /\ Len(book') = Len(book) - 1 ]_vars

\* an exit order of an open, managed position was rejected
C17_Witness ==
    /\ ev.type = "reject" /\ ev.kind # "open" /\ position.size # 0
    /\ bot.stop_loss # None /\ bot.daily_trades > 0

\* next() runs on a bar with a position open and no order outstanding, and
\* submits no partial close
ManagedBar ==
    /\ ev'.type = "bar" /\ position.size # 0 /\ book = <<>>
    /\ \A j \in 1..Len(ev'.sent) : ev'.sent[j] # "partial"

FullCloseSent == \E j \in 1..Len(ev'.sent) : ev'.sent[j] = "close"

\* the bar's close has crossed stop_loss against the position
StopCrossed ==
    /\ bot'.stop_loss # None
    /\ IF position.size > 0 THEN data'.close <= bot'.stop_loss
       ELSE data'.close >= bot'.stop_loss

\* the bar's close has crossed take_profit in favor of the position
TargetCrossed ==
    /\ bot'.take_profit # None
    /\ IF position.size > 0 THEN data'.close >= bot'.take_profit
       ELSE data'.close <= bot'.take_profit

\* C18: on a bar with a position open, no order outstanding and no partial
\* close submitted, a close beyond stop_loss makes next() submit a full close,
\* for Long and Short and for every ATR value.
C18_StopCloses == [][ (ManagedBar /\ StopCrossed) => FullCloseSent ]_vars

\* C19: on such a bar without a stop close, a close beyond take_profit makes
\* next() submit a full close; when stop and target are both crossed the stop
\* check is the one that fires.
C19_TargetCloses ==
    [][ /\ (ManagedBar /\ TargetCrossed /\ ev'.why # "stop")
              => (FullCloseSent /\ ev'.why = "target")
        /\ (ManagedBar /\ TargetCrossed /\ StopCrossed /\ FullCloseSent)
              => ev'.why = "stop" ]_vars

\* C20: an entry bar submits exactly one order; when the Long rule set is true
\* it is a buy with the stop below and the target above the close, whatever
\* the Short rule set says, and a sell entry is submitted only when no Long
\* rule fired.
C20_LongPrecedence ==
    [][ (ev'.type = "bar" /\ EntrySent(ev')) =>
          LET o == book'[Len(book')]
          IN  /\ ev'.sent = <<"open">>
              /\ ev'.sig.long =>
                    /\ o.side = "buy"
                    /\ bot'.stop_loss < data'.close
                    /\ data'.close < bot'.take_profit
              /\ o.side = "sell" =>
                    /\ ~ev'.sig.long /\ ev'.sig.short
                    /\ bot'.stop_loss > data'.close
                    /\ data'.close > bot'.take_profit ]_vars

\* a Short entry was submitted on a bar where only the Short rules fired
C20_Witness ==
    /\ ev.type = "bar" /\ ev.sent = <<"open">>
    /\ ev.sig.short /\ ~ev.sig.long
    /\ book # <<>> /\ book[Len(book)].side = "sell"

\* C21: a long entered at 100.0 with ATR 2.0 gets stop_loss 97.0 and
\* take_profit 105.0 from the entry (multipliers 1.5 and 2.5); on the bar
\* whose close is 102.0, with activation 1.0 and distance 0.8, trailing_active
\* is true after the bar, stop_loss is 100.4 and the bar submits no order.
ScenarioB_Entry ==
    /\ ev'.type = "bar" /\ EntrySent(ev') /\ ev'.sig.long
    /\ data'.close = 1000 /\ data'.atr = 20

ScenarioB_Rise ==
    /\ ev'.type = "bar" /\ bot.order = NoOrder
    /\ position.size > 0 /\ position.price = 1000 /\ bot.entry_price = 1000
    /\ bot.stop_loss = 970 /\ bot.take_profit = 1050
    /\ trailing_distance_atr(variant) = 8
    /\ data'.close = 1020 /\ data'.atr = 20

C21_ScenarioB ==
    [][ /\ ScenarioB_Entry => bot'.stop_loss = 970 /\ bot'.take_profit = 1050
        /\ ScenarioB_Rise => /\ bot'.trailing_active
                             /\ bot'.stop_loss = 1004
                             /\ ev'.sent = <<>> ]_vars

C21_Witness ==
    /\ ev.type = "bar" /\ ev.sent = <<>> /\ data.close = 1020 /\ data.atr = 20
    /\ position.size > 0 /\ position.price = 1000 /\ bot.entry_price = 1000
    /\ bot.take_profit = 1050 /\ bot.trailing_active /\ bot.stop_loss = 1004

\* C22: the analyzer's trade ledger gains exactly one record on every fill
\* that closes part or all of a position, Long or Short (the full close that
\* follows a partial close included), and none on a fill that only opens one.
C22_LedgerRecordsCloses ==
    [][ ev'.type = "fill" =>
          analyzer'.trades = analyzer.trades
                             + (IF ClosedSize(position, EventOrder(ev')) > 0 THEN 1 ELSE 0)
      ]_vars

\* C23: a fill notified while the strategy holds no pending order reference
\* (self.order is None) updates none of entry_price, daily_pnl, daily_trades,
\* consecutive_losses and the partial / breakeven / trailing flags.
C23_StrayFillIgnored ==
    [][ (ev'.type = "fill" /\ bot.order = NoOrder) =>
          /\ bot'.entry_price = bot.entry_price
          /\ bot'.daily_pnl = bot.daily_pnl
          /\ bot'.daily_trades = bot.daily_trades
          /\ bot'.consecutive_losses = bot.consecutive_losses
          /\ bot'.partial_done = bot.partial_done
          /\ bot'.breakeven_moved = bot.breakeven_moved
          /\ bot'.trailing_active = bot.trailing_active ]_vars

\* C24: on a bar with a flat position where the ATR is not positive or fewer
\* bars than the longest indicator period have been seen, next() submits no
\* entry order and leaves stop_loss, take_profit and both watermarks unchanged.
IndicatorsNotReady == data'.atr <= 0 \/ data'.len < max_period

DailyFieldsMasked(b) ==
    [b EXCEPT !.daily_pnl = 0, !.daily_trades = 0,
              !.daily_starting_cash = 0, !.last_trade_date = None]

C25_PendingOrderFreezes ==
    [][ (ev'.type = "bar" /\ bot.order # NoOrder) =>
          /\ ev'.sent = <<>> /\ book' = book
          /\ bot'.order = bot.order
          /\ IF variant = "v2"
             THEN [bot' EXCEPT !.bars_since_trade = 0] = [bot EXCEPT !.bars_since_trade = 0]
             ELSE DailyFieldsMasked([bot' EXCEPT !.bars_since_trade = 0])
                  = DailyFieldsMasked([bot EXCEPT !.bars_since_trade = 0]) ]_vars

\* a bar whose close is beyond the stop of an open position arrived while an
\* order was pending, and nothing was submitted
C25_Witness ==
    /\ ev.type = "bar" /\ ev.sent = <<>> /\ bot.order # NoOrder /\ book # <<>>
    /\ position.size > 0 /\ Truthy(bot.entry_price)
    /\ bot.stop_loss # None /\ data.close <= bot.stop_loss

\* C26: a bar submits a partial close only when partial exits are enabled,
\* the partial flag is not yet set and the profit per unit (close against the
\* entry price) is at least partial_target x ATR; it submits one, of size
\* (current position size x partial_exit_pct), and sets the flag, so that a
\* position gets at most one partial close in its life.
PartialSent(e) == e.type = "bar" /\ \E j \in 1..Len(e.sent) : e.sent[j] = "partial"

C26_PartialOnce ==
    [][ PartialSent(ev') =>
          LET o == book'[Len(book) + 1]
              profit == IF position.size > 0 THEN data'.close - position.price
                        ELSE position.price - data'.close
          IN  /\ use_partial_exit /\ ~bot.partial_done /\ bot'.partial_done
              /\ Cardinality({j \in 1..Len(ev'.sent) : ev'.sent[j] = "partial"}) = 1
              /\ o.kind = "partial"
              /\ o.size * 10 = Abs(position.size) * partial_exit_pct
              /\ profit * 10 >= partial_target_atr * data'.atr ]_vars

\* C27: in the 1m class, on a managed bar with a positive ATR where the profit
\* (close against the entry price) is at least atr_breakeven_multiplier x ATR
\* and breakeven_moved is false, breakeven_moved becomes true and stop_loss is
\* moved to entry + 0.1 x ATR for a Long, entry - 0.1 x ATR for a Short (or
\* beyond it when the trailing stop tightens further on the same bar), never
\* to the losing side of the entry.
BreakevenDue ==
    /\ variant = "m1" /\ ev'.type = "bar" /\ position.size # 0
    /\ bot.order = NoOrder /\ book = <<>>
    /\ data'.atr > 0 /\ ~bot.breakeven_moved
    /\ (IF position.size > 0 THEN data'.close - position.price
        ELSE position.price - data'.close) * 10 >= atr_breakeven_multiplier * data'.atr

C27_BreakevenOnce ==
    [][ BreakevenDue =>
          /\ bot'.breakeven_moved
          /\ bot'.stop_loss # None
          /\ IF position.size > 0
             THEN bot'.stop_loss >= position.price + data'.atr \div 10
             ELSE bot'.stop_loss <= position.price - data'.atr \div 10 ]_vars

\* C28: every bar adds one to bars_since_trade up to the cap (100 in v2, 999
\* in the 1m class), which the counter never exceeds; a fill that opens a
\* position from flat (a Long's buy or a Short's sell) resets it to 0, and a
\* fill that only reduces or closes a position leaves it unchanged.
C28_BarsSinceTrade ==
    [][ /\ bot'.bars_since_trade <= bars_cap(variant)
        /\ ev'.type = "bar" =>
              bot'.bars_since_trade = Min(bot.bars_since_trade + 1, bars_cap(variant))
        /\ (ev'.type = "fill" /\ position.size = 0) => bot'.bars_since_trade = 0
        /\ (ev'.type = "fill" /\ position.size # 0
            /\ ClosedSize(position, EventOrder(ev')) = ev'.size) =>
              bot'.bars_since_trade = bot.bars_since_trade ]_vars

\* C29: v2 submits no entry order on a bar where consecutive_losses > 0 and
\* bars_since_trade < cooldown_bars; with consecutive_losses = 0 the value of
\* bars_since_trade makes no difference to the risk check.
C29_CooldownVeto ==
    [][ (variant = "v2" /\ ev'.type = "bar") =>
          /\ EntrySent(ev') =>
                ~(bot'.consecutive_losses > 0 /\ bot'.bars_since_trade < cooldown_bars)
          /\ bot'.consecutive_losses = 0 =>
                \A n \in 0..cooldown_bars :
                    check_risk_limits([bot' EXCEPT !.bars_since_trade = n])
                    = check_risk_limits([bot' EXCEPT !.bars_since_trade = bars_cap("v2")])
      ]_vars

\* a flat v2 bar after a booked loss where only the cooldown is in the way
C29_Witness ==
    /\ variant = "v2" /\ ev.type = "bar" /\ ev.sent = <<>>
    /\ position.size = 0 /\ book = <<>> /\ bot.order = NoOrder
    /\ bot.consecutive_losses > 0 /\ bot.bars_since_trade < cooldown_bars
    /\ bot.consecutive_losses < max_consecutive_losses
    /\ bot.daily_trades < max_daily_trades_of(feed) /\ ~DailyLossHit("v2", bot)
    /\ bot.last_trade_date = data.date
    /\ data.atr > 0 /\ data.len >= max_period
    /\ is_trading_session("v2", data.hour, data.minute)

\* C30: the 1m class submits an entry order only on a bar whose time lies in
\* [session_start:00, session_end:00] and whose minute m satisfies
\* avoid_first_minutes <= m < 60 - avoid_last_minutes; v2 with
\* avoid_low_volume_hours submits none on a bar whose hour h satisfies
\* low_volume_start <= h < low_volume_end.
C30_EntryInsideSession ==
    [][ EntrySent(ev') =>
          IF variant = "m1"
          THEN /\ (data'.hour > session_start
                   \/ (data'.hour = session_start /\ data'.minute >= 0))
               /\ (data'.hour < session_end
                   \/ (data'.hour = session_end /\ data'.minute = 0))
               /\ avoid_first_minutes <= data'.minute
               /\ data'.minute < 60 - avoid_last_minutes
          ELSE avoid_low_volume_hours =>
                 ~(low_volume_start <= data'.hour /\ data'.hour < low_volume_end)
      ]_vars

\* a flat bar outside the window, after the warm-up, with nothing but the
\* session filter in the way of an entry
C30_Witness ==
    /\ ev.type = "bar" /\ ev.sent = <<>> /\ feed = "clock"
    /\ data.hour = 3 /\ data.atr > 0 /\ data.len > max_period
    /\ position.size = 0 /\ book = <<>> /\ bot.order = NoOrder
    /\ bot.daily_trades = 0 /\ bot.consecutive_losses = 0
    /\ bot.bars_since_trade >= cooldown_bars

\* C31: whenever a position is open and no order is outstanding, entry_price
\* is set and equals the price at which the position was opened, for a Long
\* and for a Short.
C31_EntryPriceKnown ==
    (position.size # 0 /\ book = <<>> /\ bot.order = NoOrder)
        => (bot.entry_price # None /\ bot.entry_price = position.price)

\* C32: a fill of a partial-close or full-close order leaves the position
\* flat or on the same side with a strictly smaller absolute size.
C32_ExitsNeverOvershoot ==
    [][ (ev'.type = "fill" /\ ev'.kind \in {"partial", "close"}) =>
          \/ position'.size = 0
          \/ /\ position.size # 0
             /\ (position'.size > 0) = (position.size > 0)
             /\ Abs(position'.size) < Abs(position.size) ]_vars

\* C33: in v2, from a state with consecutive_losses >= max_consecutive_losses,
\* a flat position and no order outstanding, every step leaves
\* consecutive_losses unchanged, submits no entry order and keeps the position
\* flat with no order, so the lockout lasts for the rest of the run, across
\* changes of the calendar date.
StreakLockout ==
    /\ variant = "v2" /\ bot.consecutive_losses >= max_consecutive_losses
    /\ position.size = 0 /\ book = <<>> /\ bot.order = NoOrder

C33_StreakLockoutPermanent ==
    [][ StreakLockout =>
          /\ bot'.consecutive_losses = bot.consecutive_losses
          /\ ~EntrySent(ev') /\ ev'.sent = <<>>
          /\ position'.size = 0 /\ book' = <<>> /\ bot'.order = NoOrder ]_vars

\* a bar of a new calendar date was processed under the lockout
C33_Witness ==
    /\ StreakLockout /\ ev.type = "bar" /\ ev.sent = <<>>
    /\ data.date = 2 /\ hist.entries = 0 /\ data.atr > 0

\* C35: while a position is open with the partial-done flag set, a
\* partial-close order has filled during that position's life or one is still
\* outstanding; in particular a rejected partial close does not leave the flag
\* set on a position of its full size.
C35_PartialFlagMeansPartial ==
    (position.size # 0 /\ bot.partial_done) =>
        \/ hist.partial_filled
        \/ \E j \in 1..Len(book) : book[j].kind = "partial"

\* C34: with rsi_oversold < rsi_midline < rsi_overbought, the long signal and
\* the short signal of v2 are never both true on one snapshot of the
\* indicators, whatever the crossover flags; likewise in the 1m class.
C34_SignalsExclusive ==
    (/\ call.fn = "entry_rules" /\ call.done
     /\ rsi_oversold_v2 < rsi_midline /\ rsi_midline < rsi_overbought_v2) =>
        ~(call.result.long /\ call.result.short)

\* v2 snapshot with the EMA crossover up and the MACD crossover down, on which
\* the rules were evaluated and gave a long signal
C34_Witness ==
    /\ call.fn = "entry_rules" /\ call.done /\ variant = "v2"
    /\ call.arg.cross > 0 /\ call.arg.mcross < 0
    /\ call.arg.f_m < 0 /\ call.arg.m_s < 0
    /\ call.result.long /\ ~call.result.short

\* C36: a request answered 401 (signature not the digest of its body under
\* the secret) or 400 (symbol not allowed) leaves session_pnl unchanged; a
\* request answered 200 changes it by +quantity x price when its side is
\* "buy" in any letter case and by -quantity x price otherwise; session_pnl is
\* always the sum of those signed notionals over the accepted requests.
C36_SessionPnl ==
    /\ [](web.session_pnl = web.accepted)
    /\ [][ web'.handled = web.handled + 1 =>
             LET req == web'.req
                 good == req.signature = 2
                 allowed == req.symbol \in ALLOWED_SYMBOLS
             IN  /\ web'.status = (IF ~good THEN 401 ELSE IF ~allowed THEN 400 ELSE 200)
                 /\ web'.status \in {400, 401} => web'.session_pnl = web.session_pnl
                 /\ web'.status = 200 =>
                       web'.session_pnl = web.session_pnl + SignedNotional(req) ]_vars

\* an upper-case BUY was accepted after earlier accepted requests had already
\* moved session_pnl
C36_Witness ==
    /\ web.handled = MaxRequests /\ web.status = 200 /\ web.req.side = "BUY"
    /\ web.session_pnl > web.req.quantity * web.req.price

\* C37: LiveTradingBot.  A buy or sell handler records a position of its own
\* type when send_signal reported success and leaves the position unchanged
\* otherwise; on_exit_signal leaves the bot without a position, whether one was
\* recorded (it is cleared) or not (no-op); the bot never holds more than one
\* recorded position.
C37_LiveBotPosition ==
    [][ live'.calls = live.calls + 1 =>
          /\ live'.op = "buy" =>
               IF live'.ok THEN \E q \in live'.position : q.type = "LONG"
               ELSE live'.position = live.position
          /\ live'.op = "sell" =>
               IF live'.ok THEN \E q \in live'.position : q.type = "SHORT"
               ELSE live'.position = live.position
          /\ live'.op = "exit" => live'.position = {}
          /\ Cardinality(live'.position) <= 1 ]_vars

\* C38: _safe_param(value, default) returns default when value is the string
\* 'undefined', None or the empty string, and returns value itself for every
\* other value, the falsy 0, 0.0 and False included.
C38_SafeParam ==
    (call.fn = "_safe_param" /\ call.done) =>
        IF call.arg.value \in {Py("str", "undefined", 0), Py("none", "", 0), Py("str", "", 0)}
        THEN call.result = call.arg.default
        ELSE call.result = call.arg.value

\* the integer 0 was passed with another default and came back unchanged
C38_Witness ==
    /\ call.fn = "_safe_param"
    /\ call.done
    /\ call.arg.value = Py("int", "", 0)
    /\ call.arg.default = Py("int", "", 14)
    /\ call.result = Py("int", "", 0)

====
